---------------------------- MODULE Spec2Model ----------------------------
(***************************************************************************)
(* SharpGlass icon scripts: resize_icons.py (Icon Resizer) and             *)
(* process_icon.py (Icon Rounder).                                         *)
(*                                                                         *)
(* Each script is a linear pipeline of imaging-library calls.  One action  *)
(* models one statement of a script; a library call either returns or      *)
(* raises, and the raise is handled by the script's except clause.         *)
(*                                                                         *)
(* A file is a record: an image [kind, w, h, px], a file that is not an    *)
(* image, an image whose header is readable but whose pixel data is cut    *)
(* short, or the remains of a save that failed.  Pixel data px is          *)
(* [rgb, alpha] with alpha a function of the pixel (x, y); a resampled     *)
(* image records the filter and the pixel data it was computed from.       *)
(***************************************************************************)
EXTENDS Integers, Sequences, FiniteSets, TLC

VARIABLES
    prog,         \* which script this process runs
    argv,         \* sys.argv[1:], the command-line arguments
    fs,           \* the file system: path -> file
    pc,           \* the statement the process is at
    input_path,   \* first parameter of resize_icon / create_rounded_icon
    output_dir,   \* resize_icon's second parameter
    output_path,  \* create_rounded_icon's second parameter
    ratio,        \* corner_radius_ratio, as <<numerator, denominator>>
    img,          \* img
    i,            \* index of the loop variable s in sizes
    out,          \* out_1x / out_2x (resizer), output (rounder)
    mask,         \* mask
    exc,          \* the exception e: its type and the statement that raised it
    stdout,       \* the messages printed, in order
    stderr,       \* the interpreter's traceback of an uncaught exception
    exitcode,     \* the exit status, meaningful once pc = "exit"
    written,      \* the paths whose save completed in this run, in order
    fs0,          \* the file system when this run started
    loaded,       \* the image this run loaded (NoImage before the load)
    runs,         \* the rounder runs whose save completed
    runsLeft      \* further invocations the environment may still make

vars == <<prog, argv, fs, pc, input_path, output_dir, output_path, ratio, img,
          i, out, mask, exc, stdout, stderr, exitcode, written, fs0, loaded,
          runs, runsLeft>>

---------------------------------------------------------------------------
(* Bounds of the model.                                                    *)

\* Source images of the program runs are 1..MaxDim pixels wide and high.
MaxDim == 2

\* Source images of the mask-geometry runs are 1..MaxGeomDim wide and high.
MaxGeomDim == 16

\* The environment invokes a script at most MaxRuns times in a row.
MaxRuns == 2

---------------------------------------------------------------------------
(* Values.                                                                 *)

NoImage == [kind |-> "none"]
NotAnImage == [kind |-> "text"]
PartialFile == [kind |-> "partial"]

\* An exception of the given type, raised by the statement at.
Raise(type, at) == [type |-> type, at |-> at]
NoException == Raise("", "")

Pixels(w, h) == (0 .. w - 1) \X (0 .. h - 1)

\* An RGBA image file of w by h pixels whose every pixel has alpha a.
RGBAImage(w, h, a) ==
    [kind |-> "image", mode |-> "RGBA", w |-> w, h |-> h,
     px |-> [rgb |-> "photo", alpha |-> [p \in Pixels(w, h) |-> a]]]

\* An RGB image file of w by h pixels: it has no alpha channel.
RGBImage(w, h) ==
    [kind |-> "image", mode |-> "RGB", w |-> w, h |-> h, px |-> [rgb |-> "photo"]]

\* The same file cut short after its header.
Truncated(im) == [kind |-> "truncated", w |-> im.w, h |-> im.h]

Exists(files, path) == path \in DOMAIN files

Put(files, path, file) ==
    [p \in DOMAIN files \cup {path} |-> IF p = path THEN file ELSE files[p]]

\* print(f"{head}{tail}")
Message(head, tail) == [head |-> head, tail |-> tail]

\* The directories that exist and can be written to.
Dirs == {"out"}

\* The paths outside Dirs that can be created or overwritten.
WritablePaths == {"a.png", "old.png", "new.png"}

Min(a, b) == IF a <= b THEN a ELSE b

---------------------------------------------------------------------------
(* Imaging-library calls, as far as the scripts depend on them.            *)

\* Image.open(path): raises when the file is missing or is not an image.
\* The pixel data is read later, by the first operation that needs it.
OpenError(files, path) ==
    IF ~Exists(files, path) THEN "FileNotFoundError"
    ELSE IF files[path].kind \in {"image", "truncated"} THEN ""
    ELSE "UnidentifiedImageError"

\* Image.resize((s, s), LANCZOS): the result is s by s whatever the source is.
Resize(im, s) ==
    [kind |-> "image", mode |-> im.mode, w |-> s, h |-> s,
     px |-> [filter |-> "LANCZOS", box |-> <<0, 0, im.w, im.h>>, of |-> im.px]]

---------------------------------------------------------------------------
(* resize_icons.py                                                         *)

\* The nominal sizes iterated largest first.
sizesDescending == <<512, 256, 128, 64, 32, 16>>

sizes == <<16, 32, 64, 128, 256, 512>>

\* f"{output_dir}/icon_{s}x{s}.png"
Name1x(dir, s) == dir \o "/icon_" \o ToString(s) \o "x" \o ToString(s) \o ".png"

\* The 2x name without its density suffix: it collides with the 1x name.
Name2xNoSuffix(dir, s) == Name1x(dir, s)

\* f"{output_dir}/icon_{s}x{s}@2x.png"
Name2x(dir, s) == dir \o "/icon_" \o ToString(s) \o "x" \o ToString(s) \o "@2x.png"

\* A save that misses its target: it overwrites the file it was read from.
SaveOkOverInput(path, dirOk) ==
    /\ dirOk
    /\ fs' = Put(Put(fs, input_path, out), path, out)
    /\ written' = Append(written, path)

\* A save that does not replace a file that is already there.
SaveOkKeepExisting(path, dirOk) ==
    /\ dirOk
    /\ fs' = IF Exists(fs, path) THEN fs ELSE Put(fs, path, out)
    /\ written' = Append(written, path)

\* out.save(path): the file is complete, or the save raises.  A save that
\* raises after opening an existing file may leave it cut short.
SaveOk(path, dirOk) ==
    /\ dirOk
    /\ fs' = Put(fs, path, out)
    /\ written' = Append(written, path)

SaveRaise(path, dirOk) ==
    /\ \/ /\ ~dirOk
          /\ exc' = Raise("FileNotFoundError", pc)
          /\ fs' = fs
       \/ /\ dirOk
          /\ exc' = Raise("OSError", pc)
          /\ \/ fs' = fs
             \/ Exists(fs, path) /\ fs' = Put(fs, path, PartialFile)
    /\ written' = written

\* if __name__ == "__main__": resize_icon(sys.argv[1], sys.argv[2])
ResizerMain ==
    /\ prog = "resizer" /\ pc = "main"
    /\ IF Len(argv) < 2
       THEN /\ stderr' = Append(stderr, "IndexError: list index out of range")
            /\ exitcode' = 1
            /\ pc' = "exit"
            /\ UNCHANGED <<input_path, output_dir>>
       ELSE /\ input_path' = argv[1]
            /\ output_dir' = argv[2]
            /\ pc' = "open"
            /\ UNCHANGED <<stderr, exitcode>>
    /\ UNCHANGED <<prog, argv, fs, output_path, ratio, img, i, out, mask, exc,
                   stdout, written, fs0, loaded, runs, runsLeft>>

\* img = Image.open(input_path); sizes = [...]; first iteration of the loop
ResizerOpen ==
    /\ prog = "resizer" /\ pc = "open"
    /\ IF OpenError(fs, input_path) # ""
       THEN /\ exc' = Raise(OpenError(fs, input_path), pc)
            /\ pc' = "except"
            /\ UNCHANGED <<img, i>>
       ELSE /\ img' = fs[input_path]
            /\ i' = 1
            /\ pc' = "resize_1x"
            /\ exc' = exc
    /\ UNCHANGED <<prog, argv, fs, input_path, output_dir, output_path, ratio,
                   out, mask, stdout, stderr, exitcode, written, fs0, loaded,
                   runs, runsLeft>>

\* img.resize(...): the first resize reads the pixel data, and raises when
\* the file is cut short; any resize may raise for want of memory.
ResizeStep(scale, next) ==
    /\ \/ /\ img.kind = "image"
          /\ out' = Resize(img, sizes[i] * scale)
          /\ loaded' = img
          /\ pc' = next
          /\ exc' = exc
       \/ /\ exc' = Raise(IF img.kind = "image" THEN "MemoryError" ELSE "OSError", pc)
          /\ pc' = "except"
          /\ UNCHANGED <<out, loaded>>
    /\ UNCHANGED <<prog, argv, fs, input_path, output_dir, output_path, ratio,
                   img, i, mask, stdout, stderr, exitcode, written, fs0, runs,
                   runsLeft>>

\* out_1x = img.resize((s, s), Image.Resampling.LANCZOS)
Resize1x ==
    /\ prog = "resizer" /\ pc = "resize_1x"
    /\ ResizeStep(1, "save_1x")

\* out_1x.save(f"{output_dir}/icon_{s}x{s}.png")
Save1x ==
    /\ prog = "resizer" /\ pc = "save_1x"
    /\ \/ /\ SaveOk(Name1x(output_dir, sizes[i]), output_dir \in Dirs)
          /\ pc' = "resize_2x"
          /\ exc' = exc
       \/ /\ SaveRaise(Name1x(output_dir, sizes[i]), output_dir \in Dirs)
          /\ pc' = "except"
    /\ UNCHANGED <<prog, argv, input_path, output_dir, output_path, ratio, img,
                   i, out, mask, stdout, stderr, exitcode, fs0, loaded, runs,
                   runsLeft>>

\* s2 = s * 2; out_2x = img.resize((s2, s2), Image.Resampling.LANCZOS)
Resize2x ==
    /\ prog = "resizer" /\ pc = "resize_2x"
    /\ ResizeStep(2, "save_2x")

\* out_2x.save(f"{output_dir}/icon_{s}x{s}@2x.png"); next s, or leave the loop
Save2x ==
    /\ prog = "resizer" /\ pc = "save_2x"
    /\ \/ /\ SaveOk(Name2x(output_dir, sizes[i]), output_dir \in Dirs)
          /\ IF i < Len(sizes)
             THEN i' = i + 1 /\ pc' = "resize_1x"
             ELSE i' = i /\ pc' = "print_done"
          /\ exc' = exc
       \/ /\ SaveRaise(Name2x(output_dir, sizes[i]), output_dir \in Dirs)
          /\ pc' = "except"
          /\ i' = i
    /\ UNCHANGED <<prog, argv, input_path, output_dir, output_path, ratio, img,
                   out, mask, stdout, stderr, exitcode, fs0, loaded, runs,
                   runsLeft>>

\* print("Resized all icons.")
ResizerPrintDone ==
    /\ prog = "resizer" /\ pc = "print_done"
    /\ stdout' = Append(stdout, Message("Resized all icons.", ""))
    /\ pc' = "return"
    /\ UNCHANGED <<prog, argv, fs, input_path, output_dir, output_path, ratio,
                   img, i, out, mask, exc, stderr, exitcode, written, fs0,
                   loaded, runs, runsLeft>>

\* The except clause of the rounder, in the resizer: it exits with status 1.
ResizerExceptExits ==
    /\ prog = "resizer" /\ pc = "except"
    /\ stdout' = Append(stdout, Message("Error: ", exc.type))
    /\ exitcode' = 1
    /\ pc' = "exit"
    /\ UNCHANGED <<prog, argv, fs, input_path, output_dir, output_path, ratio,
                   img, i, out, mask, exc, stderr, written, fs0, loaded, runs,
                   runsLeft>>

\* A handler that prints the message and lets the run go on with the step
\* after the one that raised.
ResizerExceptResumes ==
    /\ prog = "resizer" /\ pc = "except"
    /\ stdout' = Append(stdout, Message("Error: ", exc.type))
    /\ pc' = IF exc.at = "save_1x" THEN "resize_2x" ELSE "return"
    /\ UNCHANGED <<prog, argv, fs, input_path, output_dir, output_path, ratio,
                   img, i, out, mask, exc, stderr, exitcode, written, fs0,
                   loaded, runs, runsLeft>>

\* except Exception as e: print(f"Error: {e}")
ResizerExcept ==
    /\ prog = "resizer" /\ pc = "except"
    /\ stdout' = Append(stdout, Message("Error: ", exc.type))
    /\ pc' = "return"
    /\ UNCHANGED <<prog, argv, fs, input_path, output_dir, output_path, ratio,
                   img, i, out, mask, exc, stderr, exitcode, written, fs0,
                   loaded, runs, runsLeft>>

\* resize_icon returns to the module's last statement; the interpreter exits.
ResizerExit ==
    /\ prog = "resizer" /\ pc = "return"
    /\ exitcode' = 0
    /\ pc' = "exit"
    /\ UNCHANGED <<prog, argv, fs, input_path, output_dir, output_path, ratio,
                   img, i, out, mask, exc, stdout, stderr, written, fs0, loaded,
                   runs, runsLeft>>

---------------------------------------------------------------------------
(* process_icon.py                                                         *)

\* corner_radius_ratio=0.22, as the fraction <<numerator, denominator>>
DefaultRatio == <<22, 100>>

\* .convert("RGBA"): an image without alpha channel becomes fully opaque.
ConvertRGBA(im) ==
    [kind |-> "image", mode |-> "RGBA", w |-> im.w, h |-> im.h,
     px |-> [rgb |-> im.px.rgb,
             alpha |-> IF im.mode = "RGBA" THEN im.px.alpha
                       ELSE [p \in Pixels(im.w, im.h) |-> 255]]]

\* A mask with the two dimensions exchanged.
NewMaskTransposed(size) ==
    [kind |-> "image", mode |-> "L", w |-> size[2], h |-> size[1],
     px |-> [v |-> [p \in Pixels(size[2], size[1]) |-> 0]]]

\* Image.new('L', size, 0)
NewMask(size) ==
    [kind |-> "image", mode |-> "L", w |-> size[1], h |-> size[2],
     px |-> [v |-> [p \in Pixels(size[1], size[2]) |-> 0]]]

\* radius = min(w, h) * corner_radius_ratio, as a fraction
Radius(w, h, cr) == <<Min(w, h) * cr[1], cr[2]>>

\* Whether pixel (x, y) lies in the rectangle [(0, 0), (x1, y1)] with its
\* corners replaced by circular arcs of radius r = <<num, den>>: a pixel in
\* the r by r square of a corner is inside when it is within r of that
\* corner's arc centre.  Coordinates are scaled by den.  This is the region
\* the imaging library's rounded_rectangle is documented to fill; its
\* rasterisation may differ from it by a pixel along the arcs.
InRoundedRectangle(x, y, x1, y1, r) ==
    LET X == x * r[2]
        Y == y * r[2]
        R == r[1]
        cx == IF X < R THEN R ELSE x1 * r[2] - R
        cy == IF Y < R THEN R ELSE y1 * r[2] - R
        inCornerSquare == /\ X < R \/ X > x1 * r[2] - R
                          /\ Y < R \/ Y > y1 * r[2] - R
    IN  /\ 0 <= x /\ x <= x1 /\ 0 <= y /\ y <= y1
        /\ inCornerSquare =>
               (X - cx) * (X - cx) + (Y - cy) * (Y - cy) <= R * R

\* draw.rounded_rectangle([(0, 0), (w, h)], radius=radius, fill=255)
RoundedRectangle(mk, x1, y1, r) ==
    [mk EXCEPT !.px.v = [p \in Pixels(mk.w, mk.h) |->
                            IF InRoundedRectangle(p[1], p[2], x1, y1, r)
                            THEN 255 ELSE mk.px.v[p]]]

\* ImageOps.fit(image, size, centering=(0.5, 0.5)): crop the image to the
\* aspect ratio of size around its centre and resize the crop to size.  A
\* crop that is the whole image, resized to the image's own size, is a copy.
Fit(im, size) ==
    LET sameRatio == im.w * size[2] = size[1] * im.h
    IN  [kind |-> "image", mode |-> im.mode, w |-> size[1], h |-> size[2],
         px |-> IF sameRatio /\ size = <<im.w, im.h>>
                THEN im.px
                ELSE [filter |-> "BICUBIC", cropped |-> ~sameRatio, of |-> im.px]]

\* The colour channels of pixel data.
Rgb(px) == IF "rgb" \in DOMAIN px THEN px.rgb ELSE "resampled"

\* output.putalpha(mask): requires a mask of the image's size
PutAlphaError(im, mk) ==
    IF <<mk.w, mk.h>> = <<im.w, im.h>> THEN "" ELSE "ValueError"

\* The mask multiplied into the image's own alpha channel, not replacing it.
PutAlphaMultiply(im, mk) ==
    [kind |-> "image", mode |-> "RGBA", w |-> im.w, h |-> im.h,
     px |-> [rgb |-> Rgb(im.px),
             alpha |-> [p \in Pixels(im.w, im.h) |->
                           (im.px.alpha[p] * mk.px.v[p]) \div 255]]]

PutAlpha(im, mk) ==
    [kind |-> "image", mode |-> "RGBA", w |-> im.w, h |-> im.h,
     px |-> [rgb |-> Rgb(im.px), alpha |-> mk.px.v]]

\* A main that reports a short command line with the message of the except
\* clause.
RounderMainGenericError ==
    /\ prog = "rounder" /\ pc = "main"
    /\ IF Len(argv) < 2
       THEN /\ stdout' = Append(stdout,
                   Message("Error processing image: ", "IndexError"))
            /\ exitcode' = 1
            /\ pc' = "exit"
            /\ UNCHANGED <<input_path, output_path, ratio>>
       ELSE /\ input_path' = argv[1]
            /\ output_path' = argv[2]
            /\ ratio' = DefaultRatio
            /\ pc' = "open"
            /\ UNCHANGED <<stdout, exitcode>>
    /\ UNCHANGED <<prog, argv, fs, output_dir, img, i, out, mask, exc, stderr,
                   written, fs0, loaded, runs, runsLeft>>

\* if len(sys.argv) < 3: print usage, sys.exit(1);
\* else create_rounded_icon(sys.argv[1], sys.argv[2])
RounderMain ==
    /\ prog = "rounder" /\ pc = "main"
    /\ IF Len(argv) < 2
       THEN /\ stdout' = Append(stdout,
                   Message("Usage: python3 process_icon.py <input> <output>", ""))
            /\ exitcode' = 1
            /\ pc' = "exit"
            /\ UNCHANGED <<input_path, output_path, ratio>>
       ELSE /\ input_path' = argv[1]
            /\ output_path' = argv[2]
            /\ ratio' = DefaultRatio
            /\ pc' = "open"
            /\ UNCHANGED <<stdout, exitcode>>
    /\ UNCHANGED <<prog, argv, fs, output_dir, img, i, out, mask, exc, stderr,
                   written, fs0, loaded, runs, runsLeft>>

\* img = Image.open(input_path).convert("RGBA")
RounderOpen ==
    /\ prog = "rounder" /\ pc = "open"
    /\ \/ /\ OpenError(fs, input_path) # ""
          /\ exc' = Raise(OpenError(fs, input_path), pc)
          /\ pc' = "except"
          /\ UNCHANGED <<img, loaded>>
       \/ /\ OpenError(fs, input_path) = ""
          /\ exc' = Raise(IF fs[input_path].kind = "image" THEN "MemoryError"
                           ELSE "OSError", pc)
          /\ pc' = "except"
          /\ UNCHANGED <<img, loaded>>
       \/ /\ OpenError(fs, input_path) = ""
          /\ fs[input_path].kind = "image"
          /\ img' = ConvertRGBA(fs[input_path])
          /\ loaded' = fs[input_path]
          /\ pc' = "new_mask"
          /\ exc' = exc
    /\ UNCHANGED <<prog, argv, fs, input_path, output_dir, output_path, ratio,
                   i, out, mask, stdout, stderr, exitcode, written, fs0, runs,
                   runsLeft>>

\* mask = Image.new('L', img.size, 0); draw = ImageDraw.Draw(mask)
RounderNewMask ==
    /\ prog = "rounder" /\ pc = "new_mask"
    /\ mask' = NewMask(<<img.w, img.h>>)
    /\ pc' = "draw"
    /\ UNCHANGED <<prog, argv, fs, input_path, output_dir, output_path, ratio,
                   img, i, out, exc, stdout, stderr, exitcode, written, fs0,
                   loaded, runs, runsLeft>>

\* w, h = img.size; radius = min(w, h) * corner_radius_ratio;
\* draw.rounded_rectangle([(0, 0), (w, h)], radius=radius, fill=255)
RounderDraw ==
    /\ prog = "rounder" /\ pc = "draw"
    /\ mask' = RoundedRectangle(mask, img.w, img.h, Radius(img.w, img.h, ratio))
    /\ pc' = "fit"
    /\ UNCHANGED <<prog, argv, fs, input_path, output_dir, output_path, ratio,
                   img, i, out, exc, stdout, stderr, exitcode, written, fs0,
                   loaded, runs, runsLeft>>

\* output = ImageOps.fit(img, mask.size, centering=(0.5, 0.5))
RounderFit ==
    /\ prog = "rounder" /\ pc = "fit"
    /\ out' = Fit(img, <<mask.w, mask.h>>)
    /\ pc' = "putalpha"
    /\ UNCHANGED <<prog, argv, fs, input_path, output_dir, output_path, ratio,
                   img, i, mask, exc, stdout, stderr, exitcode, written, fs0,
                   loaded, runs, runsLeft>>

\* output.putalpha(mask)
RounderPutAlpha ==
    /\ prog = "rounder" /\ pc = "putalpha"
    /\ IF PutAlphaError(out, mask) # ""
       THEN /\ exc' = Raise(PutAlphaError(out, mask), pc)
            /\ pc' = "except"
            /\ out' = out
       ELSE /\ out' = PutAlpha(out, mask)
            /\ pc' = "save"
            /\ exc' = exc
    /\ UNCHANGED <<prog, argv, fs, input_path, output_dir, output_path, ratio,
                   img, i, mask, stdout, stderr, exitcode, written, fs0, loaded,
                   runs, runsLeft>>

\* output.save(output_path, "PNG")
RounderSave ==
    /\ prog = "rounder" /\ pc = "save"
    /\ \/ /\ SaveOk(output_path, output_path \in WritablePaths)
          /\ runs' = runs \cup {[run |-> Cardinality(runs) + 1,
                                 input |-> loaded, ratio |-> ratio,
                                 path |-> output_path,
                                 output |-> fs'[output_path]]}
          /\ pc' = "print_created"
          /\ exc' = exc
       \/ /\ SaveRaise(output_path, output_path \in WritablePaths)
          /\ pc' = "except"
          /\ runs' = runs
    /\ UNCHANGED <<prog, argv, input_path, output_dir, output_path, ratio, img,
                   i, out, mask, stdout, stderr, exitcode, fs0, loaded, runsLeft>>

\* print(f"Created processed icon at {output_path}"); return; exit
RounderPrintCreated ==
    /\ prog = "rounder" /\ pc = "print_created"
    /\ stdout' = Append(stdout, Message("Created processed icon at ", output_path))
    /\ pc' = "return"
    /\ UNCHANGED <<prog, argv, fs, input_path, output_dir, output_path, ratio,
                   img, i, out, mask, exc, stderr, exitcode, written, fs0,
                   loaded, runs, runsLeft>>

\* The except clause of the resizer, in the rounder: it prints and returns.
RounderExceptReturns ==
    /\ prog = "rounder" /\ pc = "except"
    /\ stdout' = Append(stdout, Message("Error processing image: ", exc.type))
    /\ pc' = "return"
    /\ UNCHANGED <<prog, argv, fs, input_path, output_dir, output_path, ratio,
                   img, i, out, mask, exc, stderr, exitcode, written, fs0,
                   loaded, runs, runsLeft>>

\* except Exception as e: print(f"Error processing image: {e}"); sys.exit(1)
RounderExcept ==
    /\ prog = "rounder" /\ pc = "except"
    /\ stdout' = Append(stdout, Message("Error processing image: ", exc.type))
    /\ exitcode' = 1
    /\ pc' = "exit"
    /\ UNCHANGED <<prog, argv, fs, input_path, output_dir, output_path, ratio,
                   img, i, out, mask, exc, stderr, written, fs0, loaded, runs,
                   runsLeft>>

\* create_rounded_icon returns to the module's last statement; the
\* interpreter exits.
RounderExit ==
    /\ prog = "rounder" /\ pc = "return"
    /\ exitcode' = 0
    /\ pc' = "exit"
    /\ UNCHANGED <<prog, argv, fs, input_path, output_dir, output_path, ratio,
                   img, i, out, mask, exc, stdout, stderr, written, fs0, loaded,
                   runs, runsLeft>>

---------------------------------------------------------------------------
(* The environment: the files on disk and the command lines.               *)

\* The source images up to maxd by maxd pixels: transparent, half
\* transparent, and without alpha channel.
Sources(maxd) ==
    {RGBAImage(w, h, a) : w \in 1 .. maxd, h \in 1 .. maxd, a \in {0, 128}}
        \cup {RGBImage(w, h) : w \in 1 .. maxd, h \in 1 .. maxd}

\* The disk before the first run: the source image, a copy of it cut short,
\* a text file, and two icons left by an earlier build.
InitialFiles(src) ==
    [p \in {"a.png", "cut.png", "notes.txt", "old.png", "out/icon_16x16.png"} |->
        CASE p = "a.png" -> src
          [] p = "cut.png" -> Truncated(src)
          [] p = "notes.txt" -> NotAnImage
          [] OTHER -> RGBAImage(1, 1, 255)]

ResizerArgvs ==
    {<<>>, <<"a.png">>, <<"a.png", "out", "extra">>}
        \cup {<<p, d>> : p \in {"a.png", "cut.png", "notes.txt", "gone.png",
                                "out/icon_16x16.png"},
                         d \in {"out", "nodir"}}

RounderArgvs ==
    {<<>>, <<"a.png">>, <<"a.png", "new.png", "extra">>}
        \cup {<<p, o>> : p \in {"a.png", "cut.png", "notes.txt", "gone.png"},
                         o \in {"a.png", "old.png", "new.png", "ro/new.png"}}

Argvs(script) == IF script = "resizer" THEN ResizerArgvs ELSE RounderArgvs

\* The corner radius ratios of direct calls of create_rounded_icon.
Ratios == {<<1, 100>>, <<22, 100>>, <<40, 100>>, <<49, 100>>}

\* A fresh interpreter at the script's first statement.
Start(script, args, files) ==
    /\ prog = script
    /\ argv = args
    /\ fs = files
    /\ fs0 = files
    /\ pc = "main"
    /\ input_path = ""
    /\ output_dir = ""
    /\ output_path = ""
    /\ ratio = DefaultRatio
    /\ img = NoImage
    /\ i = 0
    /\ out = NoImage
    /\ mask = NoImage
    /\ exc = NoException
    /\ stdout = <<>>
    /\ stderr = <<>>
    /\ exitcode = 0
    /\ written = <<>>
    /\ loaded = NoImage
    /\ runs = {}

\* One of the two scripts is invoked from the command line.
Init ==
    \E script \in {"resizer", "rounder"}, src \in Sources(MaxDim) :
        \E args \in Argvs(script) :
            /\ Start(script, args, InitialFiles(src))
            /\ runsLeft = IF script = "rounder" THEN MaxRuns - 1 ELSE 0

\* The build runs the rounder again, on the disk the last run left.
Rerun ==
    /\ pc = "exit" /\ runsLeft > 0
    /\ runsLeft' = runsLeft - 1
    /\ argv' \in Argvs(prog)
    /\ pc' = "main"
    /\ fs0' = fs
    /\ input_path' = ""
    /\ output_dir' = ""
    /\ output_path' = ""
    /\ ratio' = DefaultRatio
    /\ img' = NoImage
    /\ i' = 0
    /\ out' = NoImage
    /\ mask' = NoImage
    /\ exc' = NoException
    /\ stdout' = <<>>
    /\ stderr' = <<>>
    /\ exitcode' = 0
    /\ written' = <<>>
    /\ loaded' = NoImage
    /\ UNCHANGED <<prog, fs, runs>>

Next ==
    \/ ResizerMain
    \/ ResizerOpen
    \/ Resize1x
    \/ Save1x
    \/ Resize2x
    \/ Save2x
    \/ ResizerPrintDone
    \/ ResizerExcept
    \/ ResizerExit
    \/ RounderMain
    \/ RounderOpen
    \/ RounderNewMask
    \/ RounderDraw
    \/ RounderFit
    \/ RounderPutAlpha
    \/ RounderSave
    \/ RounderPrintCreated
    \/ RounderExcept
    \/ RounderExit
    \/ Rerun

Spec == Init /\ [][Next]_vars

\* The rounder alone, on larger images: from the command line, or by a call
\* of create_rounded_icon with a corner radius ratio of the caller's.
InitGeom ==
    \E src \in Sources(MaxGeomDim) :
        /\ runsLeft = 0
        /\ \/ \E args \in {<<>>, <<"a.png", "new.png">>} :
                  Start("rounder", args, InitialFiles(src))
           \/ \E cr \in Ratios :
                  /\ prog = "rounder"
                  /\ argv = <<>>
                  /\ fs = InitialFiles(src)
                  /\ fs0 = InitialFiles(src)
                  /\ pc = "open"
                  /\ input_path = "a.png"
                  /\ output_dir = ""
                  /\ output_path = "new.png"
                  /\ ratio = cr
                  /\ img = NoImage
                  /\ i = 0
                  /\ out = NoImage
                  /\ mask = NoImage
                  /\ exc = NoException
                  /\ stdout = <<>>
                  /\ stderr = <<>>
                  /\ exitcode = 0
                  /\ written = <<>>
                  /\ loaded = NoImage
                  /\ runs = {}

NextGeom ==
    \/ RounderMain
    \/ RounderOpen
    \/ RounderNewMask
    \/ RounderDraw
    \/ RounderFit
    \/ RounderPutAlpha
    \/ RounderSave
    \/ RounderPrintCreated
    \/ RounderExcept
    \/ RounderExit

SpecGeom == InitGeom /\ [][NextGeom]_vars

---------------------------------------------------------------------------
(* Icon Resizer: the claims.                                               *)

\* The output naming convention, in the order of writing, with the side in
\* pixels of each file.
IconTable ==
    << <<"icon_16x16.png", 16>>,     <<"icon_16x16@2x.png", 32>>,
       <<"icon_32x32.png", 32>>,     <<"icon_32x32@2x.png", 64>>,
       <<"icon_64x64.png", 64>>,     <<"icon_64x64@2x.png", 128>>,
       <<"icon_128x128.png", 128>>,  <<"icon_128x128@2x.png", 256>>,
       <<"icon_256x256.png", 256>>,  <<"icon_256x256@2x.png", 512>>,
       <<"icon_512x512.png", 512>>,  <<"icon_512x512@2x.png", 1024>> >>

IconPath(k) == output_dir \o "/" \o IconTable[k][1]

WrittenSet == {written[k] : k \in 1 .. Len(written)}

\* The files that differ between the disk now and the disk at the start.
Changed ==
    {p \in DOMAIN fs \cup DOMAIN fs0 :
        ~(Exists(fs, p) /\ Exists(fs0, p) /\ fs[p] = fs0[p])}

\* written is the first Len(written) paths of the fixed order.
WrittenIsPrefix ==
    /\ Len(written) <= Len(IconTable)
    /\ \A k \in 1 .. Len(written) : written[k] = IconPath(k)

ResizerSucceeded ==
    /\ prog = "resizer"
    /\ pc \in {"print_done", "return", "exit"}
    /\ exc = NoException
    /\ Len(argv) >= 2

Printed(head) == \E k \in 1 .. Len(stdout) : stdout[k].head = head

\* C1: a run of resize_icon in which no step fails has written exactly the
\* 12 files icon_{N}x{N}.png and icon_{N}x{N}@2x.png, N in {16, ..., 512};
\* the 12 names are pairwise distinct; the 1x file is N by N pixels and the
\* 2x file 2N by 2N, four times the pixel count, whatever the source's size.
C1_TwelveFiles ==
    ResizerSucceeded =>
        /\ WrittenSet = {IconPath(k) : k \in 1 .. 12}
        /\ Cardinality(WrittenSet) = 12
        /\ Len(written) = 12
        /\ Changed \subseteq WrittenSet
        /\ \A k \in 1 .. 12 :
               /\ fs[IconPath(k)].kind = "image"
               /\ fs[IconPath(k)].w = IconTable[k][2]
               /\ fs[IconPath(k)].h = IconTable[k][2]
        /\ \A n \in 1 .. 6 :
               /\ fs[IconPath(2 * n - 1)].w = sizes[n]
               /\ fs[IconPath(2 * n)].w = 2 * sizes[n]
               /\ fs[IconPath(2 * n)].w * fs[IconPath(2 * n)].h
                    = 4 * fs[IconPath(2 * n - 1)].w * fs[IconPath(2 * n - 1)].h

\* A run on a source that is not square has ended with all files written.
C1_Witness ==
    /\ ResizerSucceeded /\ pc = "exit"
    /\ loaded.w # loaded.h
    /\ Len(written) = 12

\* C2: in every run of resize_icon the files are written in the fixed
\* order: sizes ascending, and for each size the 1x file before the 2x
\* file; at every moment the files written so far are a prefix of it.
C2_FixedOrder ==
    prog = "resizer" =>
        /\ WrittenIsPrefix
        /\ pc \in {"resize_1x", "save_1x"} => Len(written) = 2 * (i - 1)
        /\ pc \in {"resize_2x", "save_2x"} => Len(written) = 2 * (i - 1) + 1

\* The run is about to write the 2x file of the third size.
C2_Witness ==
    /\ prog = "resizer" /\ pc = "save_2x" /\ i = 3
    /\ written[5] = "out/icon_64x64.png"

\* The number of saves that completed before the statement at raised.
SavesBefore(at) ==
    CASE at = "open" -> 0
      [] at \in {"resize_1x", "save_1x"} -> 2 * (i - 1)
      [] at \in {"resize_2x", "save_2x"} -> 2 * (i - 1) + 1

\* C3: when a step of resize_icon fails the run stops there: the files
\* written are exactly the prefix of the fixed order before the failing
\* step (none when the load fails), exactly one message beginning with
\* "Error:" is printed and "Resized all icons." is not; the only other file
\* the run can have touched is the target of the save that failed.
\* "Resized all icons." is printed only after all 12 files are written.
C3_FailureStops ==
    prog = "resizer" =>
        /\ Printed("Resized all icons.") => Len(written) = 12 /\ exc = NoException
        /\ exc # NoException =>
               /\ pc \in {"except", "return", "exit"}
               /\ WrittenIsPrefix
               /\ Len(written) = SavesBefore(exc.at)
               /\ Len(written) < 12
               /\ Changed \subseteq WrittenSet \cup
                     (IF exc.at \in {"save_1x", "save_2x"}
                      THEN {IconPath(Len(written) + 1)} ELSE {})
               /\ ~Printed("Resized all icons.")
               /\ pc = "except" => stdout = <<>>
               /\ pc \in {"return", "exit"} =>
                      /\ Len(stdout) = 1
                      /\ stdout[1].head = "Error: "
               /\ loaded = NoImage => written = <<>> /\ fs = fs0

\* A run that failed in the save of the fourth file has ended.
C3_Witness ==
    /\ prog = "resizer" /\ pc = "exit"
    /\ exc.at = "save_2x" /\ i = 2
    /\ Len(written) = 3
    /\ stdout = <<Message("Error: ", "OSError")>>

\* C4 as claimed: every invocation of the resizer ends with exit status 0,
\* for any command-line argument list.
C4_AlwaysExitZero ==
    prog = "resizer" /\ pc = "exit" => exitcode = 0

\* C4, amended: every invocation of the resizer with at least two
\* command-line arguments ends with exit status 0, on success and on any
\* failure inside resize_icon; with fewer than two arguments the index
\* error of sys.argv is not caught: the run prints nothing to standard
\* output, touches no file and ends with exit status 1.
C4_ExitZeroGivenArguments ==
    prog = "resizer" =>
        /\ pc = "exit" /\ Len(argv) >= 2 => exitcode = 0
        /\ pc = "exit" /\ Len(argv) < 2 =>
               /\ exitcode = 1
               /\ stdout = <<>> /\ stderr # <<>>
               /\ fs = fs0
        /\ pc # "exit" => ENABLED Next

\* A run that failed inside resize_icon has ended with exit status 0.
C4_Witness ==
    /\ prog = "resizer" /\ pc = "exit"
    /\ exc # NoException
    /\ exitcode = 0

---------------------------------------------------------------------------
(* Icon Rounder: the claims.                                               *)

\* create_rounded_icon was called: from the command line with at least two
\* arguments, or directly.
RounderCalled == prog = "rounder" /\ input_path # ""

\* C5: any failure in create_rounded_icon is caught, a message containing
\* "Error processing image" is printed and the run ends with exit status 1;
\* "Created processed icon at <output_path>" is printed exactly when the
\* save completed, and that run ends with exit status 0; no run prints both.
C5_FailureIsFatal ==
    prog = "rounder" =>
        /\ ~(Printed("Created processed icon at ") /\ Printed("Error processing image: "))
        /\ Printed("Created processed icon at ") =>
               /\ written = <<output_path>>
               /\ fs[output_path] = out
               /\ exc = NoException
        /\ exc # NoException =>
               /\ pc \in {"except", "exit"}
               /\ written = <<>>
        /\ pc = "exit" /\ exc # NoException =>
               /\ exitcode = 1
               /\ stdout = <<Message("Error processing image: ", exc.type)>>
        /\ pc = "exit" /\ RounderCalled /\ exc = NoException =>
               /\ exitcode = 0
               /\ written = <<output_path>>
               /\ stdout = <<Message("Created processed icon at ", output_path)>>

\* A run whose save raised has ended with exit status 1.
C5_Witness ==
    /\ prog = "rounder" /\ pc = "exit"
    /\ exc.at = "save"
    /\ exitcode = 1
    /\ stdout = <<Message("Error processing image: ", "FileNotFoundError")>>

\* C6 as claimed: every rounder run that ends with exit status 1, usage
\* error or processing exception, prints "Error processing image: ...".
C6_EveryExitOnePrintsError ==
    prog = "rounder" /\ pc = "exit" /\ exitcode = 1 =>
        Printed("Error processing image: ")

\* C6, amended: a rounder run that ends with exit status 1 prints exactly
\* one message: "Usage: python3 process_icon.py <input> <output>" when the
\* command line has fewer than two arguments, "Error processing image:
\* <details>" when create_rounded_icon raised; a usage error opens no input
\* file and writes no output file.
C6_ExitOneMessages ==
    prog = "rounder" /\ pc = "exit" /\ exitcode = 1 =>
        /\ Len(stdout) = 1
        /\ ~RounderCalled =>
               /\ Len(argv) < 2
               /\ stdout[1] = Message("Usage: python3 process_icon.py <input> <output>", "")
               /\ loaded = NoImage /\ img = NoImage
               /\ written = <<>>
               /\ fs = fs0
        /\ RounderCalled =>
               /\ exc # NoException
               /\ stdout[1] = Message("Error processing image: ", exc.type)

\* A run with a single argument has ended with exit status 1.
C6_Witness ==
    /\ prog = "rounder" /\ pc = "exit" /\ exitcode = 1
    /\ Len(argv) = 1
    /\ stdout[1].head = "Usage: python3 process_icon.py <input> <output>"

\* The save of this rounder run has completed.
Saved == prog = "rounder" /\ written # <<>>

Corners(w, h) == {<<0, 0>>, <<w - 1, 0>>, <<0, h - 1>>, <<w - 1, h - 1>>}
Center(w, h) == <<w \div 2, h \div 2>>

C8_InputUntouched ==
    prog = "rounder" /\ pc = "exit" /\ Exists(fs0, input_path) =>
        /\ Exists(fs, input_path)
        /\ fs[input_path] = fs0[input_path]

\* C8, amended: after the run the file at input_path is as before whenever
\* input_path and output_path name different files; when both name the same
\* file a completed save replaces it by the output.  In every case the only
\* file the run can change is the one at output_path, and it changes none
\* when the load fails.
C8_OnlyOutputChanges ==
    prog = "rounder" =>
        /\ Changed \subseteq {output_path}
        /\ input_path # output_path /\ Exists(fs0, input_path) =>
               /\ Exists(fs, input_path)
               /\ fs[input_path] = fs0[input_path]
        /\ input_path = output_path /\ written # <<>> => fs[input_path] = out
        /\ loaded = NoImage => fs = fs0
        /\ written = <<>> /\ pc # "except" /\ exc = NoException => fs = fs0

\* A run that wrote its output over its input has ended.
C8_Witness ==
    /\ prog = "rounder" /\ pc = "exit" /\ exitcode = 0
    /\ input_path = output_path
    /\ written = <<input_path>>
    /\ fs[input_path] # fs0[input_path]

\* C9: the mask has exactly the source image's width and height, the fit
\* step changes neither dimension nor any pixel, and the written output has
\* the width and height of the input.
C9_DimensionsKept ==
    prog = "rounder" =>
        /\ img # NoImage => img.w = loaded.w /\ img.h = loaded.h
        /\ mask # NoImage => mask.w = img.w /\ mask.h = img.h
        /\ out # NoImage => out.w = img.w /\ out.h = img.h
        /\ pc = "putalpha" => out = img
        /\ Saved =>
               /\ fs[output_path].w = loaded.w
               /\ fs[output_path].h = loaded.h
               /\ DOMAIN fs[output_path].px.alpha = Pixels(loaded.w, loaded.h)

\* The output of a source that is wider than high has been written.
C9_Witness ==
    /\ Saved /\ pc = "exit"
    /\ loaded.w > loaded.h
    /\ fs[output_path].w = loaded.w

\* C10: two runs of the rounder on the same input image with the same
\* ratio write pixel-identical outputs, whatever the earlier run did and
\* whatever file was at output_path before.
C10_SameInputSameOutput ==
    \A r1 \in runs, r2 \in runs :
        r1.input = r2.input /\ r1.ratio = r2.ratio => r1.output = r2.output

\* Two runs on the same input have written, one over a file that was
\* there before and one to a new path.
C10_Witness ==
    \E r1 \in runs, r2 \in runs :
        /\ r1.run # r2.run
        /\ r1.input = r2.input
        /\ r1.path = "old.png" /\ r2.path = "new.png"
        /\ r1.output = r2.output

=============================================================================
